---- MODULE Spec2Model ----
(***************************************************************************)
(* Model of chatbot_web/static/script.js: the chat widget's controller.    *)
(* The page holds a text input (userInput), a send button (sendBtn) and a  *)
(* log (chatLog).  The click handler of sendBtn is an async function: its   *)
(* synchronous part runs up to the first await (fetch), and it is resumed   *)
(* twice, when fetch settles and when response.json() settles.  The         *)
(* browser's event loop interleaves those resumptions with further events.  *)
(***************************************************************************)
EXTENDS Integers, Sequences, FiniteSets, TLC

(* ------------------------------ bounds --------------------------------- *)

\* Number of sends (requests issued) explored in one page session.
MaxSends == 2

\* Height of the log's viewport, in entries (chatLog.clientHeight).
ClientHeight == 2

(* ------------------------- values of the page -------------------------- *)

\* JavaScript strings are sequences of characters.
Whitespace == {" ", "\t"}

\* What the user may have in the input field.
Inputs ==
    { <<>>,
      <<" ", " ">>,
      <<"\t", "a", " ">>,
      <<"a", " ", "b">> }

\* Keys of a keypress event on the input field.
Keys == {"Enter", "a"}

\* HTTP statuses the backend may answer with (the handler never reads them).
Statuses == {200, 500}

\* JavaScript values that reach appendMessage as `message`.
Str(chars) == [type |-> "string", chars |-> chars]
Undefined == [type |-> "undefined", chars |-> <<>>]

\* Reply strings of the backend.
Replies == { <<"h", "i">> }

\* Bodies the backend may answer with: text that is no JSON, the JSON value
\* null, a JSON object without a response field, a JSON object with one.
Bodies ==
    { [kind |-> "malformed", hasResponse |-> FALSE, response |-> <<>>],
      [kind |-> "null", hasResponse |-> FALSE, response |-> <<>>],
      [kind |-> "object", hasResponse |-> FALSE, response |-> <<>>] }
    \cup { [kind |-> "object", hasResponse |-> TRUE, response |-> r] : r \in Replies }

NoBody == [kind |-> "none", hasResponse |-> FALSE, response |-> <<>>]

(* ------------------------------- state --------------------------------- *)

VARIABLES
    userInput,  \* userInput.value
    chatLog,    \* the children of chatLog, in document order
    scrollTop,  \* chatLog.scrollTop
    requests,   \* the fetch calls made so far, in order
    sends,      \* per call of the click handler that reached fetch: where it is
    origin,     \* history: for each entry of chatLog, the send that appended it
    event,      \* history: the event or resumption that ran last
    solo        \* history: the last send, if it started with no send pending:
                \* its number, the input it read and the log it found

vars == <<userInput, chatLog, scrollTop, requests, sends, origin, event, solo>>

NoSolo == [id |-> 0, raw |-> <<>>, log |-> <<>>]

\* A call of the handler is pending while it awaits fetch or response.json().
Pending(i) == sends[i].pc \in {"fetch", "json"}
AnyPending == \E i \in 1..Len(sends) : Pending(i)

Ev(type, key) == [type |-> type, key |-> key]

(* --------------------------- pure functions ---------------------------- *)

RECURSIVE TrimStart(_)
TrimStart(s) ==
    IF s = <<>> THEN s
    ELSE IF Head(s) \in Whitespace THEN TrimStart(Tail(s)) ELSE s

RECURSIVE TrimEnd(_)
TrimEnd(s) ==
    IF s = <<>> THEN s
    ELSE IF s[Len(s)] \in Whitespace THEN TrimEnd(SubSeq(s, 1, Len(s) - 1)) ELSE s

\* Mutant: only the leading whitespace is removed (trimStart for trim).
Trim_StartOnly(s) == TrimStart(s)

\* String.prototype.trim
Trim(s) == TrimEnd(TrimStart(s))

\* `${message}`: the string a template literal makes of a value.
Interpolate(v) ==
    IF v.type = "undefined" THEN <<"u", "n", "d", "e", "f", "i", "n", "e", "d">>
    ELSE v.chars

\* sender === 'user' ? 'You' : 'Bot'
Label(sender) == IF sender = "user" THEN "You" ELSE "Bot"

\* The div appendMessage builds: the span's class and label, and the text after it.
MsgDiv(sender, message) ==
    [sender |-> sender, label |-> Label(sender), text |-> Interpolate(message)]

\* chatLog.scrollHeight, in entries.
ScrollHeight(log) == IF Len(log) > ClientHeight THEN Len(log) ELSE ClientHeight

\* An assignment to scrollTop is clamped to the largest scrollable offset.
ClampScroll(log, v) ==
    IF v > ScrollHeight(log) - ClientHeight THEN ScrollHeight(log) - ClientHeight
    ELSE IF v < 0 THEN 0 ELSE v

\* JSON.stringify({ message }) as the fetch call's argument.
Request(message) ==
    [url |-> "/chat", method |-> "POST", body |-> [message |-> message]]

\* Mutant: the reply is read from a field the backend does not send.
ResponseField_WrongKey(data) == Undefined

\* Mutant: a missing reply is replaced by the empty string (data.response || '').
ResponseField_Default(data) ==
    IF data.hasResponse THEN Str(data.response) ELSE Str(<<>>)

\* data.response, for data an object.
ResponseField(data) ==
    IF data.hasResponse THEN Str(data.response) ELSE Undefined

\* A call of the handler suspended at `await fetch(...)`: no response yet.
Awaiting == [pc |-> "fetch", status |-> 0, data |-> NoBody, error |-> ""]

(* ------------------------------ actions -------------------------------- *)

Init ==
    /\ userInput = <<>>
    /\ chatLog = <<>>
    /\ scrollTop = 0
    /\ requests = <<>>
    /\ sends = <<>>
    /\ origin = <<>>
    /\ event = Ev("load", "")
    /\ solo = NoSolo

\* Mutant: the new div is inserted before the first child instead of appended.
appendMessage_Prepend(sender, message, id) ==
    /\ chatLog' = <<MsgDiv(sender, message)>> \o chatLog
    /\ scrollTop' = ClampScroll(chatLog', ScrollHeight(chatLog'))
    /\ origin' = <<id>> \o origin

\* Mutant: scrollTop is set before the div is appended, from the old scrollHeight.
appendMessage_ScrollFirst(sender, message, id) ==
    /\ chatLog' = Append(chatLog, MsgDiv(sender, message))
    /\ scrollTop' = ClampScroll(chatLog, ScrollHeight(chatLog))
    /\ origin' = Append(origin, id)

\* appendMessage(sender, message), called on behalf of send id.
appendMessage(sender, message, id) ==
    /\ chatLog' = Append(chatLog, MsgDiv(sender, message))
    /\ scrollTop' = ClampScroll(chatLog', ScrollHeight(chatLog'))
    /\ origin' = Append(origin, id)

\* The user edits the input field.
SetInput ==
    \E v \in Inputs :
        /\ userInput' = v
        /\ event' = Ev("input", "")
        /\ UNCHANGED <<chatLog, scrollTop, requests, sends, origin, solo>>

\* The user scrolls the log back to its top (a scroll event needs a move).
Scroll ==
    /\ scrollTop > 0
    /\ scrollTop' = ClampScroll(chatLog, 0)
    /\ event' = Ev("scroll", "")
    /\ UNCHANGED <<userInput, chatLog, requests, sends, origin, solo>>

\* Mutant: the handler without the `if (!message) return;` guard.
sendMessage_NoGuard(e) ==
    /\ Len(requests) < MaxSends
    /\ appendMessage("user", Str(Trim(userInput)), Len(requests) + 1)
    /\ userInput' = <<>>
    /\ requests' = Append(requests, Request(Trim(userInput)))
    /\ sends' = Append(sends, Awaiting)
    /\ event' = e
    /\ solo' = IF AnyPending THEN NoSolo
               ELSE [id |-> Len(requests) + 1, raw |-> userInput, log |-> chatLog]

\* Mutant: the echo of the user's message is left out of the synchronous part.
sendMessage_NoEcho(e) ==
    LET message == Trim(userInput) IN
    IF message = <<>>
    THEN /\ event' = e
         /\ UNCHANGED <<userInput, chatLog, scrollTop, requests, sends, origin, solo>>
    ELSE /\ Len(requests) < MaxSends
         /\ userInput' = <<>>
         /\ requests' = Append(requests, Request(message))
         /\ sends' = Append(sends, Awaiting)
         /\ event' = e
         /\ solo' = NoSolo
         /\ UNCHANGED <<chatLog, scrollTop, origin>>

\* Mutant: the handler returns at once while an earlier send is pending.
sendMessage_Blocking(e) ==
    LET message == Trim(userInput) IN
    IF message = <<>> \/ AnyPending
    THEN /\ event' = e
         /\ UNCHANGED <<userInput, chatLog, scrollTop, requests, sends, origin, solo>>
    ELSE /\ Len(requests) < MaxSends
         /\ appendMessage("user", Str(message), Len(requests) + 1)
         /\ userInput' = <<>>
         /\ requests' = Append(requests, Request(message))
         /\ sends' = Append(sends, Awaiting)
         /\ event' = e
         /\ solo' = [id |-> Len(requests) + 1, raw |-> userInput, log |-> chatLog]

\* Mutant: once a call of the handler has rejected, the handler no longer sends.
sendMessage_DeadAfterFailure(e) ==
    LET message == Trim(userInput) IN
    IF message = <<>> \/ (\E i \in 1..Len(sends) : sends[i].pc = "rejected")
    THEN /\ event' = e
         /\ UNCHANGED <<userInput, chatLog, scrollTop, requests, sends, origin, solo>>
    ELSE /\ Len(requests) < MaxSends
         /\ appendMessage("user", Str(message), Len(requests) + 1)
         /\ userInput' = <<>>
         /\ requests' = Append(requests, Request(message))
         /\ sends' = Append(sends, Awaiting)
         /\ event' = e
         /\ solo' = IF AnyPending THEN NoSolo
                    ELSE [id |-> Len(requests) + 1, raw |-> userInput, log |-> chatLog]

\* The click handler of sendBtn, up to its first await.
sendMessage(e) ==
    LET message == Trim(userInput) IN
    IF message = <<>>
    THEN /\ event' = e
         /\ UNCHANGED <<userInput, chatLog, scrollTop, requests, sends, origin, solo>>
    ELSE /\ Len(requests) < MaxSends
         /\ appendMessage("user", Str(message), Len(requests) + 1)
         /\ userInput' = <<>>
         /\ requests' = Append(requests, Request(message))
         /\ sends' = Append(sends, Awaiting)
         /\ event' = e
         /\ solo' = IF AnyPending THEN NoSolo
                    ELSE [id |-> Len(requests) + 1, raw |-> userInput, log |-> chatLog]

Click == sendMessage(Ev("click", ""))

\* Mutant: the keypress handler without the `e.key === 'Enter'` test.
Keypress_AnyKey ==
    \E key \in Keys : sendMessage(Ev("keypress", key))

\* The keypress handler of userInput.
Keypress ==
    \E key \in Keys :
        IF key = "Enter"
        THEN sendMessage(Ev("keypress", key))
        ELSE /\ event' = Ev("keypress", key)
             /\ UNCHANGED <<userInput, chatLog, scrollTop, requests, sends, origin, solo>>

\* Mutant: a placeholder bot entry is appended as soon as fetch resolves.
FetchResolve_Placeholder ==
    \E i \in 1..Len(sends), st \in Statuses :
        /\ sends[i].pc = "fetch"
        /\ sends' = [sends EXCEPT ![i].pc = "json", ![i].status = st]
        /\ appendMessage("bot", Str(<<".", ".", ".">>), i)
        /\ event' = Ev("fetch", "")
        /\ UNCHANGED <<userInput, requests, solo>>

\* Mutant: the handler returns without a word on a status that is not a success.
FetchResolve_DropNonOk ==
    \E i \in 1..Len(sends), st \in Statuses :
        /\ sends[i].pc = "fetch"
        /\ sends' = [sends EXCEPT ![i].pc = IF st \in 200..299 THEN "json" ELSE "done",
                                  ![i].status = st]
        /\ event' = Ev("fetch", "")
        /\ UNCHANGED <<userInput, chatLog, scrollTop, requests, origin, solo>>

\* fetch resolves with a response of some status; the handler calls response.json().
FetchResolve ==
    \E i \in 1..Len(sends), st \in Statuses :
        /\ sends[i].pc = "fetch"
        /\ sends' = [sends EXCEPT ![i].pc = "json", ![i].status = st]
        /\ event' = Ev("fetch", "")
        /\ UNCHANGED <<userInput, chatLog, scrollTop, requests, origin, solo>>

\* Mutant: a failed fetch is retried once more while the session allows it.
FetchReject_Retry ==
    \E i \in 1..Len(sends) :
        /\ sends[i].pc = "fetch"
        /\ IF Len(requests) < MaxSends
           THEN /\ requests' = Append(requests, requests[i])
                /\ sends' = Append([sends EXCEPT ![i].pc = "rejected",
                                                 ![i].error = "TypeError: fetch"], Awaiting)
           ELSE /\ requests' = requests
                /\ sends' = [sends EXCEPT ![i].pc = "rejected", ![i].error = "TypeError: fetch"]
        /\ event' = Ev("fetch", "")
        /\ UNCHANGED <<userInput, chatLog, scrollTop, origin, solo>>

\* Mutant: a failed fetch is caught and reported in the log.
FetchReject_ShowError ==
    \E i \in 1..Len(sends) :
        /\ sends[i].pc = "fetch"
        /\ sends' = [sends EXCEPT ![i].pc = "rejected", ![i].error = "TypeError: fetch"]
        /\ appendMessage("bot", Str(<<"e", "r", "r">>), i)
        /\ event' = Ev("fetch", "")
        /\ UNCHANGED <<userInput, requests, solo>>

\* fetch rejects (no connection): the handler's promise rejects.
FetchReject ==
    \E i \in 1..Len(sends) :
        /\ sends[i].pc = "fetch"
        /\ sends' = [sends EXCEPT ![i].pc = "rejected", ![i].error = "TypeError: fetch"]
        /\ event' = Ev("fetch", "")
        /\ UNCHANGED <<userInput, chatLog, scrollTop, requests, origin, solo>>

\* Mutant: the input field is cleared at the end of the handler, after the awaits.
JsonSettle_ClearInput ==
    \E i \in 1..Len(sends), body \in Bodies :
        /\ sends[i].pc = "json"
        /\ event' = Ev("json", "")
        /\ IF body.kind = "malformed"
           THEN /\ sends' = [sends EXCEPT ![i].pc = "rejected", ![i].data = body,
                                          ![i].error = "SyntaxError"]
                /\ UNCHANGED <<userInput, chatLog, scrollTop, origin>>
           ELSE IF body.kind = "null"
           THEN /\ sends' = [sends EXCEPT ![i].pc = "rejected", ![i].data = body,
                                          ![i].error = "TypeError: null"]
                /\ UNCHANGED <<userInput, chatLog, scrollTop, origin>>
           ELSE /\ appendMessage("bot", ResponseField(body), i)
                /\ sends' = [sends EXCEPT ![i].pc = "done", ![i].data = body]
                /\ userInput' = <<>>
        /\ UNCHANGED <<requests, solo>>

\* response.json() settles on the body received and the handler runs to its end:
\* json() rejects on a body that is no JSON; data.response throws on null;
\* otherwise the bot's message is appended.
JsonSettle ==
    \E i \in 1..Len(sends), body \in Bodies :
        /\ sends[i].pc = "json"
        /\ event' = Ev("json", "")
        /\ IF body.kind = "malformed"
           THEN /\ sends' = [sends EXCEPT ![i].pc = "rejected", ![i].data = body,
                                          ![i].error = "SyntaxError"]
                /\ UNCHANGED <<chatLog, scrollTop, origin>>
           ELSE IF body.kind = "null"
           THEN /\ sends' = [sends EXCEPT ![i].pc = "rejected", ![i].data = body,
                                          ![i].error = "TypeError: null"]
                /\ UNCHANGED <<chatLog, scrollTop, origin>>
           ELSE /\ appendMessage("bot", ResponseField(body), i)
                /\ sends' = [sends EXCEPT ![i].pc = "done", ![i].data = body]
        /\ UNCHANGED <<userInput, requests, solo>>

Next ==
    \/ SetInput
    \/ Scroll
    \/ Click
    \/ Keypress
    \/ FetchResolve
    \/ FetchReject
    \/ JsonSettle

Spec == Init /\ [][Next]_vars

\* The response, or the failure, of send i is delivered to its handler call.
Delivery(i) ==
    /\ i <= Len(sends)
    /\ (FetchResolve \/ FetchReject \/ JsonSettle)
    /\ sends'[i] # sends[i]

\* The page with a network that leaves no request unanswered for ever: every
\* pending call is eventually resumed, with a response or with a failure.
FairSpec == Spec /\ \A i \in 1..MaxSends : WF_vars(Delivery(i))

(* ---------------------------- type invariant --------------------------- *)

TypeOK ==
    /\ userInput \in Inputs
    /\ Len(chatLog) = Len(origin)
    /\ Len(requests) = Len(sends)
    /\ Len(requests) <= MaxSends
    /\ \A i \in 1..Len(sends) : sends[i].pc \in {"fetch", "json", "done", "rejected"}

(* ------------------------- vocabulary of the claims -------------------- *)

\* s is empty or holds only whitespace.
IsBlank(s) == \A k \in 1..Len(s) : s[k] \in Whitespace

\* t is s without its leading and trailing whitespace, stated without Trim:
\* s is t between two runs of whitespace, and t neither starts nor ends with one.
IsTrimOf(t, s) ==
    /\ Len(t) <= Len(s)
    /\ \E a \in 0..(Len(s) - Len(t)) :
          /\ \A k \in 1..Len(t) : t[k] = s[a + k]
          /\ \A k \in 1..a : s[k] \in Whitespace
          /\ \A k \in (a + Len(t) + 1)..Len(s) : s[k] \in Whitespace
    /\ t # <<>> => (t[1] \notin Whitespace /\ t[Len(t)] \notin Whitespace)

\* The contiguous pieces of s, the empty one included.
Substrings(s) == {SubSeq(s, a, b) : a \in 1..(Len(s) + 1), b \in 0..Len(s)}

UserEntry(t) == [sender |-> "user", label |-> "You", text |-> t]
BotEntry(t) == [sender |-> "bot", label |-> "Bot", text |-> t]

\* The step just taken ran the send handler (a click, or Enter on the input).
Activated(e) == e.type = "click" \/ (e.type = "keypress" /\ e.key = "Enter")

\* The positions of the log that hold entries of one sender.
EntriesOf(log, sender) == {k \in 1..Len(log) : log[k].sender = sender}

\* The positions of the log appended by send i.
EntriesBy(i) == {k \in 1..Len(chatLog) : origin[k] = i}

IsPrefix(p, q) == Len(p) <= Len(q) /\ \A k \in 1..Len(p) : p[k] = q[k]

(* -------------------------------- C1 ----------------------------------- *)

\* C1: whenever the send handler is activated on an input whose trimmed content
\* is non-empty, that one step appends exactly one entry to the log, the user
\* entry whose text is the input without its surrounding whitespace, and empties
\* the input field; the request it issues is still awaiting fetch at the end of
\* the step and no other call of the handler moves in it.
C1_EchoAndClear ==
    [][ (Activated(event') /\ ~IsBlank(userInput)) =>
          /\ Len(chatLog') = Len(chatLog) + 1
          /\ IsPrefix(chatLog, chatLog')
          /\ \E t \in Substrings(userInput) :
                /\ IsTrimOf(t, userInput)
                /\ chatLog'[Len(chatLog')] = UserEntry(t)
          /\ userInput' = <<>>
          /\ Len(sends') = Len(sends) + 1
          /\ sends'[Len(sends')].pc = "fetch"
          /\ \A i \in 1..Len(sends) : sends'[i] = sends[i] ]_vars

\* A send of "\ta " has just been echoed as "a" with its request pending.
C1_Witness ==
    /\ Activated(event)
    /\ solo.raw = <<"\t", "a", " ">>
    /\ Len(chatLog) = 1
    /\ chatLog[1] = UserEntry(<<"a">>)
    /\ userInput = <<>>
    /\ sends[1].pc = "fetch"

(* -------------------------------- C2 ----------------------------------- *)

\* C2: whenever the send handler is activated on an input that is empty or only
\* whitespace, the step changes neither the log, nor the requests issued, nor
\* the pending calls, nor the input field (which keeps its untrimmed content).
C2_BlankIsNoOp ==
    [][ (Activated(event') /\ IsBlank(userInput)) =>
          /\ chatLog' = chatLog
          /\ requests' = requests
          /\ sends' = sends
          /\ userInput' = userInput
          /\ scrollTop' = scrollTop ]_vars

\* The handler has just run on "  " while an earlier send is pending.
C2_Witness ==
    /\ Activated(event)
    /\ userInput = <<" ", " ">>
    /\ Len(chatLog) = 1
    /\ AnyPending

(* -------------------------------- C3 ----------------------------------- *)

\* C3: the requests issued so far are, in order, one POST to /chat per user
\* entry of the log, carrying that entry's text as its message field; and each
\* step either leaves the requests as they are or is an activation of the
\* handler on non-blank input that adds one request, whose message is the input
\* without its surrounding whitespace.
C3_OneRequestPerSend ==
    /\ [](/\ Len(requests) = Cardinality(EntriesOf(chatLog, "user"))
          /\ \A i \in 1..Len(requests) :
                /\ requests[i].url = "/chat"
                /\ requests[i].method = "POST"
                /\ \E k \in EntriesOf(chatLog, "user") :
                      /\ origin[k] = i
                      /\ requests[i].body = [message |-> chatLog[k].text])
    /\ [][ \/ requests' = requests
           \/ /\ Activated(event')
              /\ ~IsBlank(userInput)
              /\ Len(requests') = Len(requests) + 1
              /\ IsPrefix(requests, requests')
              /\ \E t \in Substrings(userInput) :
                    /\ IsTrimOf(t, userInput)
                    /\ requests'[Len(requests')] =
                         [url |-> "/chat", method |-> "POST", body |-> [message |-> t]] ]_vars

\* Two requests have been issued, the second for "\ta " carrying "a".
C3_Witness ==
    /\ Len(requests) = 2
    /\ solo.id = 2
    /\ solo.raw = <<"\t", "a", " ">>
    /\ requests[2].body.message = <<"a">>
    /\ sends[1].pc = "rejected"

(* -------------------------------- C4 ----------------------------------- *)

\* C4: when a send that read input m and found log L, with no send pending, and
\* that no later send has overlapped, has had its response processed, and the
\* body was an object with response field r, the log is L followed by exactly
\* the user entry for m without its surrounding whitespace and the bot entry
\* for r, in that order.
C4_SingleSendRoundTrip ==
    (/\ solo.id # 0
     /\ sends[solo.id].data.kind = "object"
     /\ sends[solo.id].data.hasResponse) =>
        \E t \in Substrings(solo.raw) :
            /\ IsTrimOf(t, solo.raw)
            /\ chatLog = solo.log \o <<UserEntry(t), BotEntry(sends[solo.id].data.response)>>

\* The second send, of "\ta ", started on a log of two entries and was answered "hi".
C4_Witness ==
    /\ solo.id = 2
    /\ Len(solo.log) = 2
    /\ solo.raw = <<"\t", "a", " ">>
    /\ sends[2].data.hasResponse
    /\ Len(chatLog) = 4
    /\ chatLog[4] = BotEntry(<<"h", "i">>)

(* -------------------------------- C5 ----------------------------------- *)

\* The ways a send's network call is said to fail.
ConnectionError(i) == sends[i].pc = "rejected" /\ sends[i].status = 0
NonSuccessStatus(i) == sends[i].status # 0 /\ sends[i].status \notin 200..299
MalformedBody(i) == sends[i].data.kind = "malformed"
NullBody(i) == sends[i].data.kind = "null"
LacksResponseField(i) == sends[i].data.kind = "object" /\ ~sends[i].data.hasResponse

\* Send i has put nothing in the log but its user entry.
OnlyUserEntry(i) ==
    /\ Cardinality(EntriesBy(i)) = 1
    /\ \A k \in EntriesBy(i) : chatLog[k].sender = "user"

\* C5 as stated: a send whose call failed by a connection error, a non-success
\* status, a malformed body or a body lacking the response field has put nothing
\* in the log but its user entry.
C5_Original ==
    \A i \in 1..Len(sends) :
        (\/ ConnectionError(i)
         \/ (NonSuccessStatus(i) /\ ~Pending(i))
         \/ MalformedBody(i)
         \/ LacksResponseField(i)) => OnlyUserEntry(i)

\* C5 amended: a send whose call failed by a connection error, a body that is no
\* JSON or the JSON body null has put nothing in the log but its user entry (no
\* bot entry, no error entry); every other settled send, whatever its status and
\* whether or not its body has the response field, has put exactly one bot entry
\* after it.
C5_NoBotEntryOnRejection ==
    \A i \in 1..Len(sends) :
        /\ (ConnectionError(i) \/ MalformedBody(i) \/ NullBody(i)) => OnlyUserEntry(i)
        /\ (~Pending(i) /\ ~(ConnectionError(i) \/ MalformedBody(i) \/ NullBody(i))) =>
              /\ Cardinality(EntriesBy(i)) = 2
              /\ \E k \in EntriesBy(i) : chatLog[k].sender = "bot"

\* Two sends have failed, one by a connection error and one by a malformed body
\* under status 500, and the log holds their user entries only.
C5_Witness ==
    /\ Len(sends) = 2
    /\ ConnectionError(1)
    /\ MalformedBody(2)
    /\ NonSuccessStatus(2)
    /\ Len(chatLog) = 2

(* -------------------------------- C6 ----------------------------------- *)

C7_AppendOnly ==
    [][ /\ \/ chatLog' = chatLog
           \/ (Len(chatLog') = Len(chatLog) + 1 /\ IsPrefix(chatLog, chatLog'))
        /\ (\/ Len(requests') > Len(requests)
            \/ \E i \in 1..Len(sends) : sends[i].pc # "done" /\ sends'[i].pc = "done")
              => Len(chatLog') = Len(chatLog) + 1 ]_vars

\* The same text sent twice stands twice in the log, the first send having failed.
C7_Witness ==
    /\ Len(chatLog) = 2
    /\ chatLog[1] = UserEntry(<<"a">>)
    /\ chatLog[2] = UserEntry(<<"a">>)
    /\ sends[1].pc = "rejected"

(* -------------------------------- C8 ----------------------------------- *)

\* C8: every request issued has its user entry in the log, carrying the
\* request's message, and every bot entry appended by a send stands after that
\* send's user entry.
C8_UserEntryFirst ==
    \A i \in 1..Len(requests) :
        \E u \in EntriesBy(i) :
            /\ chatLog[u] = UserEntry(requests[i].body.message)
            /\ \A k \in EntriesBy(i) : k # u => (chatLog[k].sender = "bot" /\ k > u)

\* Two overlapping sends, each answered after both were sent.
C8_Witness ==
    /\ origin = <<1, 2, 1, 2>>
    /\ chatLog[3].sender = "bot"
    /\ chatLog[4].sender = "bot"

(* -------------------------------- C9 ----------------------------------- *)

\* C9: a pending send never blocks the next one: in every state where a send
\* is pending and the input is not blank, a click can issue a further request
\* (within the sends explored); and a log entry holds a sender, a label and a
\* text only, nothing naming the send it belongs to.
C9_SendsOverlap ==
    /\ (AnyPending /\ ~IsBlank(userInput) /\ Len(requests) < MaxSends) =>
          ENABLED (Click /\ Len(requests') = Len(requests) + 1)
    /\ \A k \in 1..Len(chatLog) : DOMAIN chatLog[k] = {"sender", "label", "text"}

\* Send 2 started while send 1 was pending, and its reply stands before send 1's.
C9_Witness ==
    /\ origin = <<1, 2, 2, 1>>
    /\ chatLog[3] = BotEntry(<<"h", "i">>)
    /\ chatLog[4] = BotEntry(<<"h", "i">>)

(* -------------------------------- C10 ---------------------------------- *)

\* C10: the input field changes only when the user edits it or when the handler
\* is activated on non-blank input, which empties it; a step in which a pending
\* call moves (fetch or response.json() settling, either way) leaves it as it is.
C10_InputWrittenOnlyInSyncPart ==
    [][ /\ userInput' # userInput =>
              \/ event'.type = "input"
              \/ (Activated(event') /\ ~IsBlank(userInput) /\ userInput' = <<>>)
        /\ (\E i \in 1..Len(sends) : sends'[i] # sends[i]) => userInput' = userInput ]_vars

\* Text typed while a request was pending is still there after the request failed.
C10_Witness ==
    /\ Len(sends) = 1
    /\ sends[1].pc = "rejected"
    /\ event.type \in {"fetch", "json"}
    /\ userInput = <<"a", " ", "b">>

(* -------------------------------- C11 ---------------------------------- *)

\* What one activation of the send handler does to the log, the input field
\* and the requests, as a function of the state it starts in.
SendEffect ==
    IF IsBlank(userInput)
    THEN chatLog' = chatLog /\ userInput' = userInput /\ requests' = requests
    ELSE \E t \in Substrings(userInput) :
            /\ IsTrimOf(t, userInput)
            /\ chatLog' = Append(chatLog, UserEntry(t))
            /\ userInput' = <<>>
            /\ requests' = Append(requests,
                 [url |-> "/chat", method |-> "POST", body |-> [message |-> t]])

\* C11: a click on the send button and a keypress of Enter on the input do the
\* same to the log, the input field and the requests, the one thing the state
\* they start in determines (nothing, on blank input), and whenever the one can
\* issue a request so can the other; a keypress of any other key leaves the log
\* and the requests as they are.
C11_EnterIsClick ==
    /\ [](ENABLED (Click /\ Len(requests') > Len(requests))
            <=> ENABLED (Keypress /\ event'.key = "Enter" /\ Len(requests') > Len(requests)))
    /\ [][ /\ event'.type = "click" => SendEffect
           /\ (event'.type = "keypress" /\ event'.key = "Enter") => SendEffect
           /\ (event'.type = "keypress" /\ event'.key # "Enter") =>
                 (chatLog' = chatLog /\ requests' = requests) ]_vars

\* Enter has sent "\ta " as "a" while an earlier message, sent by a click, is pending.
C11_Witness ==
    /\ event = Ev("keypress", "Enter")
    /\ Len(chatLog) = 2
    /\ chatLog[2] = UserEntry(<<"a">>)
    /\ requests[2].body.message = <<"a">>
    /\ userInput = <<>>
    /\ sends[1].pc = "fetch"

(* -------------------------------- C12 ---------------------------------- *)

\* The largest offset a log can be scrolled to: its last entry is then in view.
Bottom(log) == IF Len(log) > ClientHeight THEN Len(log) - ClientHeight ELSE 0

\* C12: every step that appends to the log, a user entry or a bot entry, leaves
\* the log scrolled to the bottom of the log as it then is; and every step of
\* the component that appends nothing, a failure of a request among them, leaves
\* the scroll position where it was (only the user's own scrolling moves it).
C12_BottomAfterAppend ==
    [][ /\ chatLog' # chatLog => scrollTop' = Bottom(chatLog')
        /\ (chatLog' = chatLog /\ event'.type # "scroll") => scrollTop' = scrollTop
        /\ (\E i \in 1..Len(sends) : Pending(i) /\ sends'[i].pc = "rejected")
              => scrollTop' = scrollTop ]_vars

\* The first send has just failed, after the second one's reply scrolled the log
\* of three entries to its bottom.
C12_Witness ==
    /\ Len(chatLog) = 3
    /\ chatLog[3].sender = "bot"
    /\ sends[1].pc = "rejected"
    /\ event.type \in {"fetch", "json"}
    /\ scrollTop = Len(chatLog) - ClientHeight
    /\ scrollTop > 0

(* -------------------------------- C13 ---------------------------------- *)

\* The sends in a given position of the handler.
SendsAt(pcs) == {i \in 1..Len(sends) : sends[i].pc \in pcs}

\* C13: each request issued has at most one bot entry in the log; the bot
\* entries are no more than the user entries; the user entries are as many as
\* the bot entries, the pending requests and the requests that failed, taken
\* together; and every bot entry belongs to a request issued, whose user entry
\* stands before it.
C13_Accounting ==
    /\ \A i \in 1..Len(requests) :
          Cardinality({k \in EntriesBy(i) : chatLog[k].sender = "bot"}) <= 1
    /\ Cardinality(EntriesOf(chatLog, "bot")) <= Cardinality(EntriesOf(chatLog, "user"))
    /\ Cardinality(EntriesOf(chatLog, "user")) =
          Cardinality(EntriesOf(chatLog, "bot"))
          + Cardinality(SendsAt({"fetch", "json"}))
          + Cardinality(SendsAt({"rejected"}))
    /\ \A k \in EntriesOf(chatLog, "bot") :
          /\ origin[k] \in 1..Len(requests)
          /\ \E u \in 1..(k - 1) : origin[u] = origin[k] /\ chatLog[u].sender = "user"
    /\ \A k \in 1..Len(chatLog) : chatLog[k].sender \in {"user", "bot"}

\* One send answered, one still awaiting its body: two user entries, one bot entry.
C13_Witness ==
    /\ Len(sends) = 2
    /\ sends[1].pc = "done"
    /\ sends[2].pc = "json"
    /\ Cardinality(EntriesOf(chatLog, "user")) = 2
    /\ Cardinality(EntriesOf(chatLog, "bot")) = 1

(* -------------------------------- C14 ---------------------------------- *)

Sent(i) == i <= Len(sends)
HasBotEntry(i) == \E k \in EntriesBy(i) : chatLog[k].sender = "bot"

\* A pending call moves only when its response or failure is delivered, and
\* has nothing in the log but its user entry as long as it is pending.
PendingUntilDelivery ==
    /\ [](\A i \in 1..Len(sends) : Pending(i) => OnlyUserEntry(i))
    /\ [][ \A i \in 1..Len(sends) :
              (Pending(i) /\ sends'[i] # sends[i]) => event'.type \in {"fetch", "json"} ]_vars

\* The body of send i's response has arrived and parsed as JSON.
ReceivedParseable(i) == sends[i].data.kind \in {"null", "object"}

\* C14 as stated: with every pending call eventually resumed, if every request
\* issued eventually receives a response that parses, then every send
\* eventually has its bot entry; and a pending call stays pending, with no
\* entry appended for it, until a response or a failure is delivered.
C14_Original ==
    /\ (\A i \in 1..MaxSends : [](Sent(i) => <>(Sent(i) /\ ReceivedParseable(i))))
          => (\A i \in 1..MaxSends : [](Sent(i) => <>(Sent(i) /\ HasBotEntry(i))))
    /\ PendingUntilDelivery

\* C14 amended: with every pending call eventually resumed, every send
\* eventually has its bot entry unless its request met a connection error, a
\* body that does not parse, or the body null (which parses, and on which
\* reading the response field throws); and a pending call stays pending, with
\* no entry appended for it, until a response or a failure is delivered.
C14_EventuallyAnswered ==
    /\ \A i \in 1..MaxSends :
          Sent(i) ~> (Sent(i) /\ (\/ HasBotEntry(i)
                                  \/ ConnectionError(i)
                                  \/ MalformedBody(i)
                                  \/ NullBody(i)))
    /\ PendingUntilDelivery

\* Both sends have their bot entries, one of them under status 500.
C14_Witness ==
    /\ Len(sends) = 2
    /\ HasBotEntry(1)
    /\ HasBotEntry(2)
    /\ sends[1].status = 500
    /\ sends[2].status = 200

(* -------------------------------- C15 ---------------------------------- *)

\* Some send has failed.
AnyRejected == \E i \in 1..Len(sends) : sends[i].pc = "rejected"

\* C15: the step in which a send's request fails changes neither the log, nor
\* the input field, nor the scroll position, nor the requests, nor any other
\* call of the handler; and in every state after a failure each call still
\* pending can be resumed, and a click on non-blank input still appends its
\* user entry and issues its request (within the sends explored).
C15_FailureIsIsolated ==
    /\ [][ \A i \in 1..Len(sends) :
              (Pending(i) /\ sends'[i].pc = "rejected") =>
                 /\ chatLog' = chatLog
                 /\ userInput' = userInput
                 /\ scrollTop' = scrollTop
                 /\ requests' = requests
                 /\ Len(sends') = Len(sends)
                 /\ \A j \in 1..Len(sends) : j # i => sends'[j] = sends[j] ]_vars
    /\ [](AnyRejected =>
            /\ \A j \in 1..Len(sends) : Pending(j) => ENABLED Delivery(j)
            /\ (~IsBlank(userInput) /\ Len(requests) < MaxSends) =>
                  ENABLED (/\ Click
                           /\ Len(chatLog') = Len(chatLog) + 1
                           /\ Len(requests') = Len(requests) + 1))

\* After the first send failed, a second one was sent and has its bot reply.
C15_Witness ==
    /\ Len(sends) = 2
    /\ sends[1].pc = "rejected"
    /\ solo.id = 2
    /\ sends[2].pc = "done"
    /\ Len(chatLog) = 3
    /\ chatLog[3] = BotEntry(<<"h", "i">>)

====
